---- MODULE Spec2Model ----
(***************************************************************************)
(* Market simulation with Markov-chain market states and agent            *)
(* personalities (Market_Behaviours_Markov_Chains_Personalities_project). *)
(*                                                                         *)
(* Python floats are modelled as exact rationals [n |-> num, d |-> den]   *)
(* kept in lowest terms with d > 0.  Every random.random() draw is an     *)
(* input given in thousandths and taken from a small set of values that   *)
(* sit on and between the thresholds the code compares it with.           *)
(***************************************************************************)
EXTENDS Integers, Sequences, FiniteSets, TLC

VARIABLES
    pc,                    \* position of the main script
    people,                \* list of Person records (line 139)
    year,                  \* line 141
    market_history,        \* line 142
    market_value_history,  \* line 143
    current_state,         \* line 144
    market_index,          \* line 145
    requested,             \* value returned by int(input(...)) at line 150
    interval,              \* interval after the clamp of lines 151-152
    adjusted_printed,      \* whether line 153 printed for this interval
    interval_states,       \* line 155
    sy_market_index,       \* simulate_year's parameter market_index (line 81)
    active_ratio,          \* simulate_year's local (line 83) / argument of adjust_for_participation
    transitions,           \* argument `transitions` of adjust_for_participation
    adjusted_transitions,  \* simulate_year's local (line 84) / result of adjust_for_participation
    next_state,            \* simulate_year's local (line 87)
    self_before,           \* `self` as a single Person.decide call received it
    draw,                  \* the random.random() result of that call, in thousandths
    stay_prob,             \* decide's local (line 44)
    base_chance,           \* decide's local (lines 49-53)
    report                 \* what generate_report returned / stats_report printed

vars == <<pc, people, year, market_history, market_value_history, current_state,
          market_index, requested, interval, adjusted_printed, interval_states,
          sy_market_index, active_ratio, transitions, adjusted_transitions,
          next_state, self_before, draw, stay_prob, base_chance, report>>

\* the variables only the single-call specifications of Person.decide and of
\* the report functions use
callvars == <<self_before, draw, stay_prob, base_chance, report>>

----------------------------------------------------------------------------
(* Bounds of the model *)

\* number of final periods of a run followed with a population of several
\* persons and unrestricted draws
PeriodYears == 1

\* largest group handed to generate_report and stats_report on their own
MaxGroup == 4

\* number of leading periods of a run in which the random draws range over
\* MarketDraws and DecideDraws; later periods use CalmMarketDraws and
\* CalmDecideDraws
FreeYears == 2
\* largest denominator of the participation ratios given to adjust_for_participation alone
MaxDen == 3

(* Program constants *)

\* the 20-year limit of lines 148, 151, 152
Horizon == 20
\* Person.value at construction (line 39)
StartValue == 1000

----------------------------------------------------------------------------
(* Exact rational arithmetic standing for Python float arithmetic *)

Abs(x) == IF x < 0 THEN -x ELSE x

\* The arithmetic is written as functions so that every operand is a value
\* when it is used.
GCD[a \in Nat, b \in Nat] == IF b = 0 THEN a ELSE GCD[b, a % b]

Normalize[n \in Int, d \in Nat] ==
    [n |-> n \div GCD[Abs(n), d], d |-> d \div GCD[Abs(n), d]]

\* n/d in lowest terms, d > 0
Rat(n, d) == Normalize[n, d]

RatSet == [n : Int, d : Nat]

\* a decimal literal written in thousandths: 0.025 is Dec(25)
Dec(x) == Rat(x, 1000)

Zero == [n |-> 0, d |-> 1]
One == [n |-> 1, d |-> 1]

RatAddF[a \in RatSet, b \in RatSet] == Rat(a.n * b.d + b.n * a.d, a.d * b.d)
RatSubF[a \in RatSet, b \in RatSet] == Rat(a.n * b.d - b.n * a.d, a.d * b.d)
RatMulF[a \in RatSet, b \in RatSet] == Rat(a.n * b.n, a.d * b.d)
RatDivF[a \in RatSet, b \in RatSet] == Rat(a.n * b.d, a.d * b.n)

RatAdd(a, b) == RatAddF[a, b]
RatSub(a, b) == RatSubF[a, b]
RatMul(a, b) == RatMulF[a, b]
\* a / b for b > 0
RatDiv(a, b) == RatDivF[a, b]
RatLt(a, b) == a.n * b.d < b.n * a.d
RatLe(a, b) == a.n * b.d <= b.n * a.d
RatMax(a, b) == IF RatLt(a, b) THEN b ELSE a

RECURSIVE RatSumSeq(_)
RatSumSeq(s) == IF s = <<>> THEN Zero ELSE RatAdd(Head(s), RatSumSeq(Tail(s)))

RECURSIVE RatProdSeq(_)
RatProdSeq(s) == IF s = <<>> THEN One ELSE RatMul(Head(s), RatProdSeq(Tail(s)))

----------------------------------------------------------------------------
(* Binary64 arithmetic.  A rational of the model stands for the float      *)
(* nearest to it; where the outcome of the code depends on which side of   *)
(* the rational that float lies (a draw exactly on a cumulative weight, a  *)
(* value exactly between two multiples of 0.01), the float is computed     *)
(* here.  A float is [m |-> bits, e |-> exponent]: the natural number      *)
(* written by `bits` (most significant first, <<>> is 0) times 2^e, with   *)
(* no leading and no trailing zero bit.  Only values >= 0 occur.  The      *)
(* floats follow the operations of the code one by one, each rounded to    *)
(* the nearest float.                                                      *)

\* bits of k, 0 <= k < 2^30
NatBits(k) ==
    LET w == CHOOSE v \in 0 .. 30 : k < 2 ^ v /\ (v = 0 \/ 2 ^ (v - 1) <= k)
    IN  [i \in 1 .. w |-> (k \div 2 ^ (w - i)) % 2]

\* the last w bits of k
FixedBits(k, w) == [i \in 1 .. w |-> (k \div 2 ^ (w - i)) % 2]

\* the number written by at most 30 bits
RECURSIVE BitsNat(_)
BitsNat(b) ==
    IF Len(b) = 0 THEN 0
    ELSE IF Len(b) = 1 THEN b[1]
    ELSE LET h == Len(b) \div 2
         IN  BitsNat(SubSeq(b, 1, h)) * 2 ^ (Len(b) - h) + BitsNat(SubSeq(b, h + 1, Len(b)))

StripLeading(b) ==
    LET ones == {i \in 1 .. Len(b) : b[i] = 1}
    IN  IF ones = {} THEN <<>>
        ELSE SubSeq(b, CHOOSE i \in ones : \A j \in ones : i <= j, Len(b))

PadLeft(b, len) ==
    [i \in 1 .. len |-> IF i <= len - Len(b) THEN 0 ELSE b[i - (len - Len(b))]]

ShiftLeft(b, k) == IF Len(b) = 0 THEN <<>> ELSE b \o [i \in 1 .. k |-> 0]

\* a + b: position i receives a carry when a position to its right has
\* two ones and every position in between has at least one
BitAdd(a, b) ==
    LET len == IF Len(a) < Len(b) THEN Len(b) ELSE Len(a)
    IN  LET x == PadLeft(a, len)
            y == PadLeft(b, len)
        IN  LET carry(i) ==
                    IF \E j \in i + 1 .. len :
                          /\ x[j] + y[j] = 2
                          /\ \A k \in i + 1 .. j - 1 : x[k] + y[k] >= 1
                    THEN 1 ELSE 0
            IN  StripLeading([i \in 1 .. len + 1 |->
                                 IF i = 1 THEN carry(0)
                                 ELSE (x[i - 1] + y[i - 1] + carry(i - 1)) % 2])

RECURSIVE BitMul(_, _)
BitMul(a, b) ==
    IF Len(b) = 0 THEN <<>>
    ELSE IF Len(b) = 1 THEN (IF b[1] = 1 THEN a ELSE <<>>)
    ELSE LET h == Len(b) \div 2
         IN  BitAdd(ShiftLeft(BitMul(a, SubSeq(b, 1, h)), Len(b) - h),
                    BitMul(a, SubSeq(b, h + 1, Len(b))))

\* a <= b for bit strings without leading zeros
BitLe(a, b) ==
    IF Len(a) /= Len(b) THEN Len(a) < Len(b)
    ELSE LET diff == {i \in 1 .. Len(a) : a[i] /= b[i]}
         IN  diff = {} \/ a[CHOOSE i \in diff : \A j \in diff : i <= j] = 0

\* the float form of bits * 2^e
Canon(bits, e) ==
    LET m    == StripLeading(bits)
        ones == {i \in 1 .. Len(m) : m[i] = 1}
        last == CHOOSE i \in ones : \A j \in ones : j <= i
    IN  IF Len(m) = 0 THEN [m |-> <<>>, e |-> 0]
        ELSE [m |-> SubSeq(m, 1, last), e |-> e + Len(m) - last]

\* exact sum, product and comparison
DyAdd(x, y) ==
    LET e == IF x.e < y.e THEN x.e ELSE y.e
    IN  IF Len(x.m) = 0 THEN y
        ELSE IF Len(y.m) = 0 THEN x
        ELSE Canon(BitAdd(ShiftLeft(x.m, x.e - e), ShiftLeft(y.m, y.e - e)), e)

DyMul(x, y) ==
    IF Len(x.m) = 0 THEN x
    ELSE IF Len(y.m) = 0 THEN y
    ELSE Canon(BitMul(x.m, y.m), x.e + y.e)

DyLe(x, y) ==
    LET e == IF x.e < y.e THEN x.e ELSE y.e
    IN  BitLe(ShiftLeft(x.m, x.e - e), ShiftLeft(y.m, y.e - e))

\* rounding to 53 significant bits, nearest, a tie to the even mantissa
Fl(x) ==
    IF Len(x.m) <= 53 THEN x
    ELSE LET keep == SubSeq(x.m, 1, 53)
             up   == /\ x.m[54] = 1
                     /\ (Len(x.m) > 54 \/ keep[53] = 1)
         IN  Canon(IF up THEN BitAdd(keep, <<1>>) ELSE keep, x.e + Len(x.m) - 53)

\* the first 15 * chunks bits of the binary expansion of r/d < 1, d <= 2^15,
\* and the remainder left after them
RECURSIVE Expand(_, _, _)
Expand(r, d, chunks) ==
    IF chunks = 0 THEN [bits |-> <<>>, rem |-> r]
    ELSE LET rest == Expand((r * 32768) % d, d, chunks - 1)
         IN  [bits |-> FixedBits((r * 32768) \div d, 15) \o rest.bits,
              rem  |-> rest.rem]

\* the float nearest to the rational x >= 0: a float literal, or a value
\* known up to an error far below 2^-53 of it.  90 bits after the point
\* hold more than 54 significant bits; a last 1 stands for a nonzero rest.
FromRat(x) ==
    LET ip == NatBits(x.n \div x.d)
        fr == Expand(x.n % x.d, x.d, 6)
    IN  IF fr.rem = 0
        THEN Fl(Canon(ip \o fr.bits, -90))
        ELSE Fl(Canon(ip \o fr.bits \o <<1>>, -91))

\* a - b for a >= b: a plus the complement of b plus one, the carry out
\* of the top position dropped
BitSub(a, b) ==
    LET len  == Len(a)
        comp == [i \in 1 .. len |-> 1 - PadLeft(b, len)[i]]
        sum  == PadLeft(BitAdd(BitAdd(a, comp), <<1>>), len + 1)
    IN  StripLeading(SubSeq(sum, 2, len + 1))

\* exact difference x - y for x >= y
DySub(x, y) ==
    LET e == IF x.e < y.e THEN x.e ELSE y.e
    IN  IF Len(y.m) = 0 THEN x
        ELSE Canon(BitSub(ShiftLeft(x.m, x.e - e), ShiftLeft(y.m, y.e - e)), e)

\* one step of binary long division by the number yh * 2^27 + yl < 2^53:
\* the remainder st.hi * 2^27 + st.lo takes in the next bit of the dividend
\* and gives up the divisor when it holds it
DivStep(st, bit, yh, yl) ==
    LET lo2 == 2 * st.lo + bit
        hi  == 2 * st.hi + lo2 \div 134217728
        lo  == lo2 % 134217728
    IN  IF hi > yh \/ (hi = yh /\ lo >= yl)
        THEN [hi |-> IF lo < yl THEN hi - yh - 1 ELSE hi - yh,
              lo |-> IF lo < yl THEN lo + 134217728 - yl ELSE lo - yl,
              q  |-> Append(st.q, 1)]
        ELSE [hi |-> hi, lo |-> lo, q |-> Append(st.q, 0)]

\* the steps for the bits a .. b of the dividend m followed by zeros: the
\* left half, which leaves one quotient bit for each of its bits, then the
\* right half
RECURSIVE DivRange(_, _, _, _, _, _)
DivRange(st, m, a, b, yh, yl) ==
    IF a > b THEN st
    ELSE IF a = b THEN DivStep(st, IF a <= Len(m) THEN m[a] ELSE 0, yh, yl)
    ELSE LET mid  == (a + b) \div 2
             left == DivRange(st, m, a, mid, yh, yl)
         IN  IF Len(left.q) = Len(st.q) + mid - a + 1
             THEN DivRange(left, m, mid + 1, b, yh, yl)
             ELSE st

\* the float nearest to x / y, for y > 0 of at most 53 bits: the quotient
\* is taken to at least 57 significant bits, a last 1 stands for a nonzero
\* remainder
DivNearest(x, y) ==
    LET s   == IF Len(y.m) + 57 > Len(x.m) THEN Len(y.m) + 57 - Len(x.m) ELSE 0
        d   == PadLeft(y.m, 54)
        yh  == BitsNat(SubSeq(d, 1, 27))
        yl  == BitsNat(SubSeq(d, 28, 54))
        res == DivRange([hi |-> 0, lo |-> 0, q |-> <<>>], x.m, 1, Len(x.m) + s, yh, yl)
    IN  IF Len(x.m) = 0 THEN x
        ELSE IF res.hi = 0 /\ res.lo = 0
        THEN Fl(Canon(res.q, x.e - y.e - s))
        ELSE Fl(Canon(res.q \o <<1>>, x.e - y.e - s - 1))

\* the float nearest to x / n for a natural number 0 < n < 2^30
DyDivNat(x, n) == DivNearest(x, Canon(NatBits(n), 0))

\* float addition, multiplication, division, and subtraction for x >= y
FloatAdd(x, y) == Fl(DyAdd(x, y))
FloatMul(x, y) == Fl(DyMul(x, y))
FloatDiv(x, y) == DivNearest(x, y)
FloatSub(x, y) == Fl(DySub(x, y))

\* round(x, 2) of a float x: the multiple of 0.01 nearest to the float's
\* exact value, an exact tie going to the even one; the result k/100 stands
\* for the float nearest to it
Round2(x) ==
    LET y     == DyMul(x, [m |-> NatBits(100), e |-> 0])
        f     == -y.e
        len   == Len(y.m)
        whole == IF y.e >= 0 THEN BitsNat(ShiftLeft(y.m, y.e))
                 ELSE IF len > f THEN BitsNat(SubSeq(y.m, 1, len - f))
                 ELSE 0
        half  == y.e < 0 /\ len >= f /\ y.m[len - f + 1] = 1
        up    == half /\ (f > 1 \/ whole % 2 = 1)
    IN  Rat(IF up THEN whole + 1 ELSE whole, 100)

----------------------------------------------------------------------------
(* Constant tables *)

\* key order of the inner dicts of BASE_MARKOV_TRANSITIONS
StateOrder == <<"up", "down", "flat", "crash", "boom">>
States == {"up", "down", "flat", "crash", "boom"}

PersonalityTypes == <<"risk_taker", "cautious", "greedy", "average">>

PERSONALITIES ==
    [risk_taker |-> [stay_in_prob |-> [up |-> Dec(900), down |-> Dec(750), flat |-> Dec(800)]],
     cautious   |-> [stay_in_prob |-> [up |-> Dec(950), down |-> Dec(400), flat |-> Dec(600)]],
     greedy     |-> [stay_in_prob |-> [up |-> Dec(990), down |-> Dec(650), flat |-> Dec(700)]],
     average    |-> [stay_in_prob |-> [up |-> Dec(850), down |-> Dec(500), flat |-> Dec(650)]]]

BASE_MARKOV_TRANSITIONS_DownToBoom ==
    [up    |-> [up |-> Dec(400), down |-> Dec(300), flat |-> Dec(250), crash |-> Dec(25), boom |-> Dec(25)],
     down  |-> [up |-> Dec(300), down |-> Dec(400), flat |-> Dec(250), crash |-> Dec(25), boom |-> Dec(25)],
     flat  |-> [up |-> Dec(350), down |-> Dec(300), flat |-> Dec(300), crash |-> Dec(25), boom |-> Dec(25)],
     crash |-> [up |-> Dec(400), down |-> Dec(300), flat |-> Dec(250), crash |-> Dec(25), boom |-> Dec(25)],
     boom  |-> [up |-> Dec(300), down |-> Dec(250), flat |-> Dec(400), crash |-> Dec(25), boom |-> Dec(25)]]

BASE_MARKOV_TRANSITIONS ==
    [up    |-> [up |-> Dec(400), down |-> Dec(300), flat |-> Dec(250), crash |-> Dec(25), boom |-> Dec(25)],
     down  |-> [up |-> Dec(300), down |-> Dec(400), flat |-> Dec(250), crash |-> Dec(50), boom |-> Dec(0)],
     flat  |-> [up |-> Dec(350), down |-> Dec(300), flat |-> Dec(300), crash |-> Dec(25), boom |-> Dec(25)],
     crash |-> [up |-> Dec(400), down |-> Dec(300), flat |-> Dec(250), crash |-> Dec(25), boom |-> Dec(25)],
     boom  |-> [up |-> Dec(300), down |-> Dec(250), flat |-> Dec(400), crash |-> Dec(25), boom |-> Dec(25)]]

MARKET_STATES_ZeroCrash ==
    [up |-> Dec(1100), down |-> Dec(900), flat |-> Dec(1000), crash |-> Dec(0), boom |-> Dec(1300)]

MARKET_STATES ==
    [up |-> Dec(1100), down |-> Dec(900), flat |-> Dec(1000), crash |-> Dec(600), boom |-> Dec(1300)]

----------------------------------------------------------------------------
(* Inputs *)

\* values typed at "Enter number of people in the simulation" (line 138)
PeopleCounts == {-1, 0, 1}
\* values typed at "Enter number of years to simulate before update (1-20)" (line 150)
IntervalInputs == {-1, 0, 5, 15}
\* random.random() results, in thousandths, used by random.choices (line 87)
MarketDraws == {0, 399, 450, 710, 800, 960, 980, 990}
\* random.random() results, in thousandths, used by Person.decide (lines 54, 57)
DecideDraws == {0, 250, 350, 500, 995}
\* the draws followed after the first FreeYears periods
CalmMarketDraws == {800}
CalmDecideDraws == {0}
MarketDrawsAt(t) == IF t < FreeYears THEN MarketDraws ELSE CalmMarketDraws
DecideDrawsAt(t) == IF t < FreeYears THEN DecideDraws ELSE CalmDecideDraws

----------------------------------------------------------------------------
(* class Person *)

Person(personality) ==
    [personality |-> personality, value |-> Rat(StartValue, 1), active |-> TRUE]

StayProb_CrashUnmapped(personality, market_state) ==
    LET tbl == PERSONALITIES[personality].stay_in_prob
    IN  IF market_state \in DOMAIN tbl THEN tbl[market_state] ELSE Dec(600)

\* PERSONALITIES[...]["stay_in_prob"].get("down" if crash else market_state, 0.6)
StayProb(personality, market_state) ==
    LET key == IF market_state = "crash" THEN "down" ELSE market_state
        tbl == PERSONALITIES[personality].stay_in_prob
    IN  IF key \in DOMAIN tbl THEN tbl[key] ELSE Dec(600)

ReentryChance_InclusiveBands(idx) ==
    IF RatLe(idx, Dec(800)) THEN RatAdd(Dec(250), Dec(250))
    ELSE IF RatLe(idx, Dec(1000)) THEN RatAdd(Dec(250), Dec(100))
    ELSE Dec(250)

\* base_chance of lines 49-53
ReentryChance(idx) ==
    IF RatLt(idx, Dec(800)) THEN RatAdd(Dec(250), Dec(250))
    ELSE IF RatLt(idx, Dec(1000)) THEN RatAdd(Dec(250), Dec(100))
    ELSE Dec(250)

decide_BothTests(p, market_state, idx, u) ==
    LET entered == IF ~p.active /\ RatLt(Dec(u), ReentryChance(idx))
                   THEN [p EXCEPT !.active = TRUE]
                   ELSE p
    IN  IF entered.active /\ RatLt(StayProb(p.personality, market_state), Dec(u))
        THEN [entered EXCEPT !.active = FALSE]
        ELSE entered

\* Person.decide; u is the one random.random() result the call consumes
decide(p, market_state, idx, u) ==
    IF ~p.active
    THEN IF RatLt(Dec(u), ReentryChance(idx))
         THEN [p EXCEPT !.active = TRUE]
         ELSE p
    ELSE IF p.active /\ RatLt(StayProb(p.personality, market_state), Dec(u))
         THEN [p EXCEPT !.active = FALSE]
         ELSE p

update_value_Always(p, market_state) ==
    [p EXCEPT !.value = RatMul(@, MARKET_STATES[market_state])]

update_value_Never(p, market_state) == p

\* Person.update_value
update_value(p, market_state) ==
    IF p.active
    THEN [p EXCEPT !.value = RatMul(@, MARKET_STATES[market_state])]
    ELSE p

----------------------------------------------------------------------------
(* adjust_for_participation *)

RowSum(probs) == RatSumSeq([i \in 1 .. Len(StateOrder) |-> probs[StateOrder[i]]])

AdjustRow_NoNormalize(probs, ratio) ==
    IF RatLt(ratio, Dec(500))
    THEN [probs EXCEPT !.down = RatAdd(@, Dec(50)),
                       !.up = RatMax(Zero, RatSub(@, Dec(30))),
                       !.boom = RatMax(Zero, RatSub(@, Dec(10)))]
    ELSE probs

AdjustRow_InclusiveThreshold(probs, ratio) ==
    LET adj == IF RatLe(ratio, Dec(500))
               THEN [probs EXCEPT !.down = RatAdd(@, Dec(50)),
                                  !.up = RatMax(Zero, RatSub(@, Dec(30))),
                                  !.boom = RatMax(Zero, RatSub(@, Dec(10)))]
               ELSE probs
        total == RowSum(adj)
    IN  [key \in DOMAIN adj |-> RatDiv(adj[key], total)]

AdjustRow_UpBoosted(probs, ratio) ==
    LET adj == IF RatLt(ratio, Dec(500))
               THEN [probs EXCEPT !.up = RatAdd(@, Dec(50)),
                                  !.down = RatMax(Zero, RatSub(@, Dec(30))),
                                  !.boom = RatMax(Zero, RatSub(@, Dec(10)))]
               ELSE probs
        total == RowSum(adj)
    IN  [key \in DOMAIN adj |-> RatDiv(adj[key], total)]

\* the body of the loop of lines 68-77 for one source state
AdjustRow(probs, ratio) ==
    LET adj == IF RatLt(ratio, Dec(500))
               THEN [probs EXCEPT !.down = RatAdd(@, Dec(50)),
                                  !.up = RatMax(Zero, RatSub(@, Dec(30))),
                                  !.boom = RatMax(Zero, RatSub(@, Dec(10)))]
               ELSE probs
        total == RowSum(adj)
    IN  [key \in DOMAIN adj |-> RatDiv(adj[key], total)]

adjust_for_participation(trans, ratio) ==
    [state \in DOMAIN trans |-> AdjustRow(trans[state], ratio)]

----------------------------------------------------------------------------
(* random.choices(population, weights, k=1)[0] with random.random() = u/1000 *)

CumWeight(weights, i) == RatSumSeq([j \in 1 .. i |-> weights[StateOrder[j]]])

\* sum(adjusted[state].values()): float additions in key order
RECURSIVE FloatRowSum(_, _)
FloatRowSum(adj, i) ==
    IF i = 1 THEN adj[StateOrder[1]]
    ELSE FloatAdd(FloatRowSum(adj, i - 1), adj[StateOrder[i]])

\* the floats the loop body of lines 68-77 leaves in adjusted[state], for
\* the float literals of probs
FloatAdjustRow(probs, ratio) ==
    LET f     == [key \in DOMAIN probs |-> FromRat(probs[key])]
        lower(x, by) == IF DyLe(x, FromRat(by)) THEN FromRat(Zero)
                        ELSE FloatSub(x, FromRat(by))
        adj   == IF RatLt(ratio, Dec(500))
                 THEN [f EXCEPT !.down = FloatAdd(@, FromRat(Dec(50))),
                                !.up = lower(@, Dec(30)),
                                !.boom = lower(@, Dec(10))]
                 ELSE f
        total == FloatRowSum(adj, Len(StateOrder))
    IN  [key \in DOMAIN adj |-> FloatDiv(adj[key], total)]

\* the running sums list(accumulate(weights)) holds: float additions of the
\* float weights
RECURSIVE FloatAccumulate(_, _)
FloatAccumulate(weights, i) ==
    IF i = 1 THEN weights[StateOrder[1]]
    ELSE FloatAdd(FloatAccumulate(weights, i - 1), weights[StateOrder[i]])

\* the rows simulate_year draws from (line 85), for a participation below
\* one half and from one half on, with their running sums, computed once
AdjustedRows ==
    [low \in BOOLEAN |->
        [s \in States |->
            AdjustRow(BASE_MARKOV_TRANSITIONS[s], IF low THEN Zero ELSE One)]]

AdjustedFloatRows ==
    [low \in BOOLEAN |->
        [s \in States |->
            FloatAdjustRow(BASE_MARKOV_TRANSITIONS[s], IF low THEN Zero ELSE One)]]

AdjustedFloatCumWeights ==
    [low \in BOOLEAN |->
        [s \in States |->
            [i \in 1 .. Len(StateOrder) |-> FloatAccumulate(AdjustedFloatRows[low][s], i)]]]

\* cum_weights[i - 1] for the row `weights` of simulate_year; any other row
\* is taken as float literals
FloatCumWeight(weights, i) ==
    LET from == {c \in BOOLEAN \X States : AdjustedRows[c[1]][c[2]] = weights}
    IN  IF from /= {}
        THEN LET c == CHOOSE c \in from : TRUE
             IN  AdjustedFloatCumWeights[c[1]][c[2]][i]
        ELSE FloatAccumulate([key \in DOMAIN weights |-> FromRat(weights[key])], i)

\* cum_weights[i - 1] <= random() * total as the code's floats compare, for
\* x the exact product of the draw and the exact total.  Unequal exact
\* values are many float errors apart and compare as they are; when they
\* are equal the floats decide: the running sum against the float product
\* of the draw and the last running sum.
CumWeightLe(weights, i, x) ==
    IF CumWeight(weights, i) /= x
    THEN RatLt(CumWeight(weights, i), x)
    ELSE DyLe(FloatCumWeight(weights, i),
              FloatMul(FromRat(RatDiv(x, CumWeight(weights, Len(StateOrder)))),
                       FloatCumWeight(weights, Len(StateOrder))))

\* bisect(cum_weights, x, 0, n - 1): how many of the first n-1 sums are <= x
Bisect(weights, x) ==
    Cardinality({i \in 1 .. Len(StateOrder) - 1 : CumWeightLe(weights, i, x)})

Choices(weights, u) ==
    LET total == CumWeight(weights, Len(StateOrder))
    IN  StateOrder[Bisect(weights, RatMul(Dec(u), total)) + 1]

----------------------------------------------------------------------------
(* Main script helpers *)

\* lines 151-152
ClampInterval_None(y, r) == r

ClampInterval_ToHorizon(y, r) == IF y + r > Horizon THEN Horizon ELSE r

ClampInterval(y, r) == IF y + r > Horizon THEN Horizon - y ELSE r

\* line 158
UpdateMarketIndex_Stale(idx, state) == idx

UpdateMarketIndex(idx, state) == RatMul(idx, MARKET_STATES[state])

ActiveValue_Everyone(ps) == RatSumSeq([i \in 1 .. Len(ps) |-> ps[i].value])

\* sum(p.value for p in people if p.active), line 160
ActiveValue(ps) ==
    RatSumSeq([i \in 1 .. Len(ps) |-> IF ps[i].active THEN ps[i].value ELSE Zero])

ActiveCount_Everyone(ps) == Len(ps)

\* len([p for p in people if p.active]), line 82
ActiveCount(ps) == Cardinality({i \in 1 .. Len(ps) : ps[i].active})

AgentStep_Herding(ps, i, market_state, idx, u) ==
    LET others == \E j \in 1 .. Len(ps) : j /= i /\ ps[j].active
        p      == decide(ps[i], market_state, idx, u)
    IN  [ps EXCEPT ![i] = update_value(IF others THEN p ELSE [p EXCEPT !.active = FALSE],
                                       market_state)]

\* the body of the loop of lines 94-96 for the person at position i; u is
\* the random.random() result its decide call consumes
AgentStep(ps, i, market_state, idx, u) ==
    [ps EXCEPT ![i] = update_value(decide(ps[i], market_state, idx, u), market_state)]

\* the loop of lines 94-96 visiting the positions of `order` one after another
RECURSIVE RunAgents(_, _, _, _, _)
RunAgents(ps, order, market_state, idx, draws) ==
    IF order = <<>>
    THEN ps
    ELSE RunAgents(AgentStep(ps, Head(order), market_state, idx, draws[Head(order)]),
                   Tail(order), market_state, idx, draws)

\* `for person in people` visits the list front to back
ListOrder(ps) == [i \in 1 .. Len(ps) |-> i]

----------------------------------------------------------------------------
(* The main script *)

\* simulate_year is not running: its parameters and locals hold placeholders
NoFrame ==
    /\ sy_market_index = One
    /\ active_ratio = One
    /\ transitions = BASE_MARKOV_TRANSITIONS
    /\ adjusted_transitions = BASE_MARKOV_TRANSITIONS
    /\ next_state = "flat"

\* no single call of decide or of a report function is being observed
NoCall ==
    /\ self_before = Person("average")
    /\ draw = 0
    /\ stay_prob = Zero
    /\ base_chance = Zero
    /\ report = [text |-> "none"]

Init ==
    /\ pc = "input_n"
    /\ people = <<>>
    /\ year = 0
    /\ market_history = <<>>
    /\ market_value_history = <<>>
    /\ current_state = "flat"
    /\ market_index = One
    /\ requested = 0
    /\ interval = 0
    /\ adjusted_printed = FALSE
    /\ interval_states = <<>>
    /\ NoFrame
    /\ NoCall

\* generate_people(n): range(n) is empty for n <= 0
generate_people(n, kinds) ==
    [i \in 1 .. (IF n > 0 THEN n ELSE 0) |-> Person(kinds[i])]

\* lines 138-145
InputPeople ==
    /\ pc = "input_n"
    /\ \E n \in PeopleCounts :
         \E kinds \in [1 .. (IF n > 0 THEN n ELSE 0) ->
                         {PersonalityTypes[k] : k \in 1 .. Len(PersonalityTypes)}] :
            people' = generate_people(n, kinds)
    /\ pc' = "while"
    /\ UNCHANGED callvars
    /\ UNCHANGED <<year, market_history, market_value_history, current_state,
                   market_index, requested, interval, adjusted_printed,
                   interval_states, sy_market_index, active_ratio, transitions,
                   adjusted_transitions, next_state>>

\* lines 148-156: the while test, the prompt, the clamp and the first for test
Prompt ==
    /\ pc = "while"
    /\ year < Horizon
    /\ \E r \in IntervalInputs :
         /\ requested' = r
         /\ interval' = ClampInterval(year, r)
         /\ adjusted_printed' = (year + r > Horizon)
         /\ pc' = IF 0 < ClampInterval(year, r) THEN "simulate_year" ELSE "report"
    /\ interval_states' = <<>>
    /\ UNCHANGED callvars
    /\ UNCHANGED <<people, year, market_history, market_value_history,
                   current_state, market_index, sy_market_index, active_ratio,
                   transitions, adjusted_transitions, next_state>>

\* line 83 with an empty population: ZeroDivisionError ends the script
SimulateYearDivZero ==
    /\ pc = "simulate_year"
    /\ Len(people) = 0
    /\ pc' = "ZeroDivisionError"
    /\ sy_market_index' = market_index
    /\ UNCHANGED callvars
    /\ UNCHANGED <<people, year, market_history, market_value_history,
                   current_state, market_index, requested, interval,
                   adjusted_printed, interval_states, active_ratio, transitions,
                   adjusted_transitions, next_state>>

\* lines 157, 81-91: the call, the participation snapshot and the market draw
SimulateYearDrawFrom(marketDraws) ==
    /\ pc = "simulate_year"
    /\ Len(people) > 0
    /\ sy_market_index' = market_index
    /\ \E ratio \in {Rat(ActiveCount(people), Len(people))} :
         \E adjusted \in {adjust_for_participation(BASE_MARKOV_TRANSITIONS, ratio)} :
            /\ active_ratio' = ratio
            /\ transitions' = BASE_MARKOV_TRANSITIONS
            /\ adjusted_transitions' = adjusted
            /\ \E u \in marketDraws :
                  next_state' = Choices(adjusted[current_state], u)
    /\ pc' = "agents"
    /\ UNCHANGED callvars
    /\ UNCHANGED <<people, year, market_history, market_value_history,
                   current_state, market_index, requested, interval,
                   adjusted_printed, interval_states>>

SimulateYearDraw == SimulateYearDrawFrom(MarketDrawsAt(year))

\* lines 93-97 and 157-162: every person decides and updates, then the
\* script records the period and tests the for loop again
SimulateYearAgentsFrom(decideDraws) ==
    /\ pc = "agents"
    /\ \E draws \in [1 .. Len(people) -> decideDraws] :
         people' = RunAgents(people, ListOrder(people), next_state,
                             sy_market_index, draws)
    /\ current_state' = next_state
    /\ market_index' = UpdateMarketIndex(market_index, next_state)
    /\ market_history' = Append(market_history, next_state)
    /\ market_value_history' = Append(market_value_history, ActiveValue(people'))
    /\ interval_states' = Append(interval_states, next_state)
    /\ year' = year + 1
    /\ pc' = IF Len(interval_states) + 1 < interval THEN "simulate_year" ELSE "report"
    /\ sy_market_index' = One
    /\ active_ratio' = One
    /\ transitions' = BASE_MARKOV_TRANSITIONS
    /\ adjusted_transitions' = BASE_MARKOV_TRANSITIONS
    /\ next_state' = "flat"
    /\ UNCHANGED callvars
    /\ UNCHANGED <<requested, interval, adjusted_printed>>

SimulateYearAgents == SimulateYearAgentsFrom(DecideDrawsAt(year))

\* lines 164-174
Report ==
    /\ pc = "report"
    /\ pc' = "while"
    /\ UNCHANGED callvars
    /\ UNCHANGED <<people, year, market_history, market_value_history,
                   current_state, market_index, requested, interval,
                   adjusted_printed, interval_states, sy_market_index,
                   active_ratio, transitions, adjusted_transitions, next_state>>

\* lines 148, 176-191: the while test fails, final summary and plot
Finish ==
    /\ pc = "while"
    /\ ~(year < Horizon)
    /\ pc' = "done"
    /\ UNCHANGED callvars
    /\ UNCHANGED <<people, year, market_history, market_value_history,
                   current_state, market_index, requested, interval,
                   adjusted_printed, interval_states, sy_market_index,
                   active_ratio, transitions, adjusted_transitions, next_state>>

Next ==
    \/ InputPeople
    \/ Prompt
    \/ SimulateYearDivZero
    \/ SimulateYearDraw
    \/ SimulateYearAgents
    \/ Report
    \/ Finish

Spec == Init /\ [][Next]_vars

\* the script runs its next statement whenever it has one
FairSpec == Spec /\ WF_vars(Next)

----------------------------------------------------------------------------
(* The last PeriodYears periods of a run with several persons.  The run so  *)
(* far: one interval of Horizon - PeriodYears periods was requested, every  *)
(* period drew `flat`, nobody left before the last of them.                 *)

\* populations followed through the last periods
PeriodCounts == {2}

InitPeriod ==
    /\ pc = "while"
    /\ year = Horizon - PeriodYears
    /\ \E n \in PeriodCounts :
         /\ people \in [1 .. n -> {[Person(PersonalityTypes[k]) EXCEPT !.active = a] :
                                      k \in 1 .. Len(PersonalityTypes), a \in BOOLEAN}]
         /\ market_value_history =
               [i \in 1 .. Horizon - PeriodYears |->
                   IF i < Horizon - PeriodYears
                   THEN Rat(n * StartValue, 1)
                   ELSE ActiveValue(people)]
    /\ market_history = [i \in 1 .. Horizon - PeriodYears |-> "flat"]
    /\ interval_states = [i \in 1 .. Horizon - PeriodYears |-> "flat"]
    /\ current_state = "flat"
    /\ market_index = One
    /\ requested = Horizon - PeriodYears
    /\ interval = Horizon - PeriodYears
    /\ adjusted_printed = FALSE
    /\ NoFrame
    /\ NoCall

\* random.random() results of random.choices in the last periods; 950 sits
\* exactly on the third cumulative weight of every base row, where the float
\* running sum decides the outcome
PeriodMarketDraws == MarketDraws \cup {950}

PeriodDraw == SimulateYearDrawFrom(PeriodMarketDraws)

PeriodAgents == SimulateYearAgentsFrom(DecideDraws)

NextPeriod ==
    \/ Prompt
    \/ PeriodDraw
    \/ PeriodAgents
    \/ Report
    \/ Finish

SpecPeriod == InitPeriod /\ [][NextPeriod]_vars

----------------------------------------------------------------------------
(* adjust_for_participation on its own: any row-stochastic matrix, any ratio *)

\* probabilities, in thousandths, the test rows are built from
ProbGrid == {0, 5, 20, 25, 50, 250, 400, 475, 500, 950, 1000}

TestRows ==
    {[up |-> Dec(a), down |-> Dec(b), flat |-> Dec(c), crash |-> Dec(e),
      boom |-> Dec(1000 - a - b - c - e)] :
        <<a, b, c, e>> \in {q \in ProbGrid \X ProbGrid \X ProbGrid \X ProbGrid :
                              (1000 - q[1] - q[2] - q[3] - q[4]) \in ProbGrid}}

TestMatrices ==
    {BASE_MARKOV_TRANSITIONS}
        \cup {[s \in States |-> r] : r \in TestRows}
        \cup {[BASE_MARKOV_TRANSITIONS EXCEPT !["down"] = r] : r \in TestRows}

TestRatios == {Rat(k, m) : <<k, m>> \in {q \in (0 .. MaxDen) \X (1 .. MaxDen) : q[1] <= q[2]}}

InitAdjust ==
    /\ pc = "adjust_call"
    /\ transitions \in TestMatrices
    /\ active_ratio \in TestRatios
    /\ adjusted_transitions = BASE_MARKOV_TRANSITIONS
    /\ people = <<>>
    /\ year = 0
    /\ market_history = <<>>
    /\ market_value_history = <<>>
    /\ current_state = "flat"
    /\ market_index = One
    /\ requested = 0
    /\ interval = 0
    /\ adjusted_printed = FALSE
    /\ interval_states = <<>>
    /\ sy_market_index = One
    /\ next_state = "flat"
    /\ NoCall

AdjustCall ==
    /\ pc = "adjust_call"
    /\ adjusted_transitions' = adjust_for_participation(transitions, active_ratio)
    /\ pc' = "adjust_return"
    /\ UNCHANGED callvars
    /\ UNCHANGED <<people, year, market_history, market_value_history,
                   current_state, market_index, requested, interval,
                   adjusted_printed, interval_states, sy_market_index,
                   active_ratio, transitions, next_state>>

NextAdjust == AdjustCall

SpecAdjust == InitAdjust /\ [][NextAdjust]_vars

----------------------------------------------------------------------------
(* Person.decide on its own: one call on any person, state, index and draw *)

\* market_index arguments, in thousandths, on and around 0.8 and 1.0
DecideIndexes == {600, 799, 800, 999, 1000, 1300}

\* random.random() results, in thousandths, of the single call
DecideCallDraws == DecideDraws \cup {450}

InitDecide ==
    /\ pc = "decide_call"
    /\ self_before \in {[Person(PersonalityTypes[k]) EXCEPT !.active = a] :
                          k \in 1 .. Len(PersonalityTypes), a \in BOOLEAN}
    /\ people = <<self_before>>
    /\ next_state \in States
    /\ sy_market_index \in {Dec(x) : x \in DecideIndexes}
    /\ draw \in DecideCallDraws
    /\ stay_prob = Zero
    /\ base_chance = Zero
    /\ report = [text |-> "none"]
    /\ year = 0
    /\ market_history = <<>>
    /\ market_value_history = <<>>
    /\ current_state = "flat"
    /\ market_index = One
    /\ requested = 0
    /\ interval = 0
    /\ adjusted_printed = FALSE
    /\ interval_states = <<>>
    /\ active_ratio = One
    /\ transitions = BASE_MARKOV_TRANSITIONS
    /\ adjusted_transitions = BASE_MARKOV_TRANSITIONS

\* lines 42-58: people[1].decide(next_state, sy_market_index)
DecideCall ==
    /\ pc = "decide_call"
    /\ stay_prob' = StayProb(people[1].personality, next_state)
    /\ base_chance' = IF ~people[1].active
                      THEN ReentryChance(sy_market_index)
                      ELSE base_chance
    /\ people' = <<decide(people[1], next_state, sy_market_index, draw)>>
    /\ pc' = "decide_return"
    /\ UNCHANGED <<year, market_history, market_value_history, current_state,
                   market_index, requested, interval, adjusted_printed,
                   interval_states, sy_market_index, active_ratio, transitions,
                   adjusted_transitions, next_state, self_before, draw, report>>

NextDecide == DecideCall

SpecDecide == InitDecide /\ [][NextDecide]_vars

----------------------------------------------------------------------------
(* generate_report and stats_report on their own: any small group *)

\* values = [round(p.value, 2) for p in people], lines 106 and 123
RoundedValues(group) ==
    [i \in 1 .. Len(group) |-> Round2(FromRat(group[i].value))]

\* sorted(values)[k - 1]
KthSmallest(values, k) ==
    CHOOSE v \in {values[i] : i \in 1 .. Len(values)} :
        /\ Cardinality({i \in 1 .. Len(values) : RatLt(values[i], v)}) < k
        /\ k <= Cardinality({i \in 1 .. Len(values) : RatLe(values[i], v)})

\* exact sum of the floats of values[a], ..., values[b]
RECURSIVE FloatSumRange(_, _, _)
FloatSumRange(values, a, b) ==
    IF a > b THEN [m |-> <<>>, e |-> 0]
    ELSE IF a = b THEN FromRat(values[a])
    ELSE LET mid == (a + b) \div 2
         IN  DyAdd(FloatSumRange(values, a, mid), FloatSumRange(values, mid + 1, b))

\* exact sum of the floats of a list
FloatExactSum(values) == FloatSumRange(values, 1, Len(values))

\* statistics.mean of a non-empty list: the exact sum of the floats divided
\* by their number, rounded once to a float
Mean(values) == DyDivNat(FloatExactSum(values), Len(values))

\* statistics.median of a non-empty list
Median(values) ==
    LET n == Len(values)
    IN  IF n % 2 = 1
        THEN FromRat(KthSmallest(values, (n + 1) \div 2))
        ELSE DyDivNat(FloatAdd(FromRat(KthSmallest(values, n \div 2)),
                               FromRat(KthSmallest(values, n \div 2 + 1))),
                      2)

\* how often v occurs in the list
Frequency(values, v) == Cardinality({i \in 1 .. Len(values) : values[i] = v})

\* whether statistics.mode raises StatisticsError (Python 3.8 and later):
\* for empty data only, never for a tie
ModeRaises(values) == Len(values) = 0

\* statistics.mode of a non-empty list (Python 3.8 and later):
\* Counter(data).most_common(1)[0][0], the first value met in the list among
\* those of highest frequency
Mode(values) ==
    LET best  == CHOOSE c \in {Frequency(values, values[i]) : i \in 1 .. Len(values)} :
                    \A i \in 1 .. Len(values) : Frequency(values, values[i]) <= c
        first == CHOOSE i \in 1 .. Len(values) :
                    /\ Frequency(values, values[i]) = best
                    /\ \A j \in 1 .. i - 1 : Frequency(values, values[j]) < best
    IN  values[first]

\* min(values) and max(values)
Min(values) == KthSmallest(values, 1)
Max(values) == KthSmallest(values, Len(values))

\* lines 105-119; a string result s is the record [text |-> s]
generate_report(group) ==
    LET values == RoundedValues(group)
    IN  IF values = <<>>
        THEN [text |-> "No data."]
        ELSE [mean   |-> Round2(Mean(values)),
              median |-> Round2(Median(values)),
              min    |-> Round2(FromRat(Min(values))),
              max    |-> Round2(FromRat(Max(values))),
              mode   |-> IF ModeRaises(values)
                         THEN [text |-> "No unique mode"]
                         ELSE Round2(FromRat(Mode(values)))]

\* lines 122-135: what the call prints after its heading
stats_report(group) ==
    LET values == RoundedValues(group)
    IN  IF values /= <<>>
        THEN [count  |-> Len(values),
              mean   |-> Round2(Mean(values)),
              median |-> Round2(Median(values)),
              mode   |-> IF ModeRaises(values)
                         THEN [text |-> "No unique mode"]
                         ELSE Round2(FromRat(Mode(values))),
              min    |-> Min(values),
              max    |-> Max(values)]
        ELSE [count |-> 0, text |-> "No data to show."]

\* values of the persons of a group, in thousandths; 2.675 lies exactly
\* between two multiples of 0.01, and so do means and medians of the
\* rounded values
ReportValues == {1000, 2000, 2675, 3000}

ReportGroups ==
    UNION {[1 .. n -> {[Person("average") EXCEPT !.value = Dec(v)] : v \in ReportValues}] :
             n \in 0 .. MaxGroup}

InitReport ==
    /\ pc = "report_call"
    /\ people \in ReportGroups
    /\ report = [text |-> "none"]
    /\ self_before = Person("average")
    /\ draw = 0
    /\ stay_prob = Zero
    /\ base_chance = Zero
    /\ year = 0
    /\ market_history = <<>>
    /\ market_value_history = <<>>
    /\ current_state = "flat"
    /\ market_index = One
    /\ requested = 0
    /\ interval = 0
    /\ adjusted_printed = FALSE
    /\ interval_states = <<>>
    /\ NoFrame

GenerateReportCall ==
    /\ pc = "report_call"
    /\ report' = generate_report(people)
    /\ pc' = "generate_report_return"
    /\ UNCHANGED <<people, year, market_history, market_value_history,
                   current_state, market_index, requested, interval,
                   adjusted_printed, interval_states, sy_market_index,
                   active_ratio, transitions, adjusted_transitions, next_state,
                   self_before, draw, stay_prob, base_chance>>

StatsReportCall ==
    /\ pc = "report_call"
    /\ report' = stats_report(people)
    /\ pc' = "stats_report_return"
    /\ UNCHANGED <<people, year, market_history, market_value_history,
                   current_state, market_index, requested, interval,
                   adjusted_printed, interval_states, sy_market_index,
                   active_ratio, transitions, adjusted_transitions, next_state,
                   self_before, draw, stay_prob, base_chance>>

NextReport ==
    \/ GenerateReportCall
    \/ StatsReportCall

SpecReport == InitReport /\ [][NextReport]_vars

----------------------------------------------------------------------------
(* Properties *)

\* product of the value multipliers of the recorded periods
HistoryProduct(h) == RatProdSeq([i \in 1 .. Len(h) |-> MARKET_STATES[h[i]]])

\* C1 as stated: the market index handed to the decide calls of a period is
\* the cumulative product of the multipliers of all periods so far including
\* the period whose state was just drawn.
C1_IndexIncludesDrawnPeriod ==
    pc = "agents" =>
        sy_market_index = RatMul(HistoryProduct(market_history), MARKET_STATES[next_state])

\* C1 amended: the decide calls of a period receive the market index as it
\* stood before the period (the product of the multipliers of all earlier
\* periods, starting at 1.0); the running index is multiplied by the drawn
\* state's multiplier only after those calls, so that between periods it is
\* the product over every recorded period.
C1_IndexExcludesDrawnPeriod ==
    /\ pc = "agents" =>
         /\ Len(market_history) = year
         /\ sy_market_index = HistoryProduct(market_history)
    /\ market_index = HistoryProduct(market_history)

C1_Witness ==
    /\ pc = "agents"
    /\ year = 1
    /\ market_history = <<"crash">>
    /\ next_state = "boom"
    /\ sy_market_index = Dec(600)

\* C2: the number of simulated periods equals the length of market_history
\* and of market_value_history and never exceeds the horizon of 20.
C2_YearCountsHistory ==
    /\ year = Len(market_history)
    /\ year = Len(market_value_history)
    /\ year <= Horizon

C2_Witness ==
    /\ pc = "done"
    /\ year = Horizon
    /\ Len(market_history) = Horizon
    /\ Len(market_value_history) = Horizon

\* C3 as stated: with a population in place, whatever intervals are typed,
\* the period loop eventually stops with year = 20 and 20 history entries.
C3_LoopStopsAtHorizon ==
    (pc = "while" /\ Len(people) > 0) ~>
        (pc = "done" /\ year = Horizon /\ Len(market_history) = Horizon)

\* C4: at the end of an interval that started with r periods remaining, a
\* request above r has simulated exactly r periods and printed the
\* adjustment; a request in 1..r has simulated exactly that many periods and
\* printed no adjustment.
C4_HorizonClamping ==
    pc = "report" =>
        LET simulated == Len(interval_states)
            r == Horizon - (year - simulated)
        IN  /\ requested > r => (simulated = r /\ adjusted_printed)
            /\ requested \in 1 .. r => (simulated = requested /\ ~adjusted_printed)

C4_Witness ==
    /\ pc = "report"
    /\ requested = 15
    /\ Len(interval_states) = 5
    /\ year = Horizon
    /\ adjusted_printed

\* C5 as stated: every interval that is applied simulates at least 1 and at
\* most (20 - year at the prompt) periods.
C5_AppliedIntervalInRange ==
    pc = "report" =>
        LET simulated == Len(interval_states)
        IN  /\ 1 <= simulated
            /\ simulated <= Horizon - (year - simulated)

\* C6 as stated: simulate_year is never entered with an empty population,
\* so the participation ratio never divides by zero.
C6_NoEmptyPopulation ==
    /\ pc = "simulate_year" => Len(people) > 0
    /\ pc # "ZeroDivisionError"

\* C7: in every period, each agent that is active after its decide call has
\* its value multiplied by the drawn state's multiplier in that period; an
\* average agent holding 1000 that stays active through an "up" period ends
\* the period with 1100.
C7_ActiveAfterDecideIsMultiplied ==
    [][pc = "agents" =>
         \A i \in 1 .. Len(people) :
            /\ people'[i].active =>
                 people'[i].value = RatMul(people[i].value, MARKET_STATES[next_state])
            /\ (/\ people[i].personality = "average"
                /\ people[i].active
                /\ people[i].value = Rat(1000, 1)
                /\ next_state = "up"
                /\ people'[i].active) => people'[i].value = Rat(1100, 1)]_vars

\* an average agent that left in period 1 and came back in an "up" period 2
C7_Witness ==
    /\ year = 2
    /\ market_value_history[1] = Zero
    /\ market_history[2] = "up"
    /\ people[1].personality = "average"
    /\ people[1].active
    /\ people[1].value = Rat(1100, 1)

\* C8: an agent that is inactive after its decide call (one that just left
\* included) ends the period with the value it had at the start.
C8_InactiveValueUnchanged ==
    [][\A i \in 1 .. Len(people) :
          (i <= Len(people') /\ ~people'[i].active) =>
              people'[i].value = people[i].value]_vars

\* an agent that left in a crash period and kept its 1000
C8_Witness ==
    /\ year = 1
    /\ market_history = <<"crash">>
    /\ ~people[1].active
    /\ people[1].value = Rat(StartValue, 1)

\* C9: every agent's value is strictly positive after any sequence of
\* periods.
C9_ValuePositive ==
    \A i \in 1 .. Len(people) : people[i].value.n > 0 /\ people[i].value.d > 0

\* an agent that stayed active through two crash periods: 1000 * 0.6 * 0.6
C9_Witness ==
    /\ year = 2
    /\ market_history = <<"crash", "crash">>
    /\ people[1].value = Rat(360, 1)

\* C10: for a row-stochastic non-negative matrix and any participation
\* ratio, every row of the adjusted matrix is non-negative and sums to 1.
C10_AdjustedRowsStochastic ==
    pc = "adjust_return" =>
        \A s \in DOMAIN adjusted_transitions :
            /\ \A k \in DOMAIN adjusted_transitions[s] :
                  adjusted_transitions[s][k].n >= 0 /\ adjusted_transitions[s][k].d > 0
            /\ RowSum(adjusted_transitions[s]) = One

\* low participation on a row whose "up" and "boom" entries hit the floor
C10_Witness ==
    /\ pc = "adjust_return"
    /\ RatLt(active_ratio, Dec(500))
    /\ transitions["down"].up = Dec(20)
    /\ transitions["down"].boom = Dec(5)
    /\ adjusted_transitions["down"].up = Zero
    /\ adjusted_transitions["down"].boom = Zero

\* C11: for every participation ratio of 0.5 or more, exactly 0.5 included,
\* adjust_for_participation returns a matrix equal, entry by entry, to the
\* one it was given (in the simulation: the base matrix).
C11_NoAdjustmentFromHalf ==
    (pc = "adjust_return" /\ RatLe(Dec(500), active_ratio)) =>
        \A s \in States : \A t \in States :
            adjusted_transitions[s][t] = transitions[s][t]

C11_Witness ==
    /\ pc = "adjust_return"
    /\ active_ratio = Rat(1, 2)
    /\ transitions = BASE_MARKOV_TRANSITIONS
    /\ adjusted_transitions = BASE_MARKOV_TRANSITIONS

\* C12: for every participation ratio below 0.5 and every source state, the
\* adjusted (renormalized) row gives `down` at least its base probability,
\* gives `up` and `boom` at most their base probabilities, and has no
\* negative entry.
C12_LowParticipationShiftsDown ==
    (pc = "adjust_return" /\ RatLt(active_ratio, Dec(500))) =>
        \A s \in States :
            /\ RatLe(transitions[s]["down"], adjusted_transitions[s]["down"])
            /\ RatLe(adjusted_transitions[s]["up"], transitions[s]["up"])
            /\ RatLe(adjusted_transitions[s]["boom"], transitions[s]["boom"])
            /\ \A t \in States : RatLe(Zero, adjusted_transitions[s][t])

C12_Witness ==
    /\ pc = "adjust_return"
    /\ active_ratio = Rat(1, 3)
    /\ transitions = BASE_MARKOV_TRANSITIONS
    /\ RatLt(transitions["up"]["down"], adjusted_transitions["up"]["down"])
    /\ RatLt(adjusted_transitions["up"]["up"], transitions["up"]["up"])
    /\ transitions["down"]["boom"] = Zero
    /\ adjusted_transitions["down"]["boom"] = Zero

\* C13: the stay-in lookup of decide is defined for every personality and
\* every market state: `crash` reads the personality's `down` entry, `up`,
\* `down` and `flat` read their own entry, and `boom`, which has no entry,
\* gives the default 0.6.
C13_StayProbTotal ==
    pc = "decide_return" =>
        LET tbl == PERSONALITIES[self_before.personality].stay_in_prob
        IN  /\ next_state = "crash" => stay_prob = tbl["down"]
            /\ next_state \in {"up", "down", "flat"} => stay_prob = tbl[next_state]
            /\ next_state = "boom" => stay_prob = Dec(600)

C13_Witness ==
    /\ pc = "decide_return"
    /\ self_before.personality = "cautious"
    /\ next_state = "crash"
    /\ stay_prob = Dec(400)

\* C14: for a person inactive at the call, the re-entry chance decide uses is
\* 0.5 when the market index is below 0.8, 0.35 when it is at least 0.8 and
\* below 1.0, and 0.25 when it is 1.0 or more; the person is active after
\* the call exactly when the call's draw is strictly below that chance.
C14_ReentryChanceBands ==
    (pc = "decide_return" /\ ~self_before.active) =>
        /\ RatLt(sy_market_index, Dec(800)) => base_chance = Dec(500)
        /\ (RatLe(Dec(800), sy_market_index) /\ RatLt(sy_market_index, One))
               => base_chance = Dec(350)
        /\ RatLe(One, sy_market_index) => base_chance = Dec(250)
        /\ people[1].active <=> RatLt(Dec(draw), base_chance)

C14_Witness ==
    /\ pc = "decide_return"
    /\ ~self_before.active
    /\ sy_market_index = Dec(800)
    /\ draw = 250
    /\ base_chance = Dec(350)
    /\ people[1].active

\* C17: one decide call applies exactly one test, chosen by the flag the
\* person had when the call started: the re-entry test for an inactive
\* person, the exit test for an active one.  A person who re-enters is
\* active when the call returns even if the draw exceeds the stay-in
\* probability, a person who exits is inactive when the call returns even if
\* the draw is below the re-entry chance, so the flag changes at most once,
\* and nothing else of the person changes.
C17_OneTestPerCall ==
    pc = "decide_return" =>
        /\ ~self_before.active =>
              people[1].active = RatLt(Dec(draw), ReentryChance(sy_market_index))
        /\ self_before.active =>
              people[1].active = ~RatLt(stay_prob, Dec(draw))
        /\ people[1] = [self_before EXCEPT !.active = people[1].active]

C17_Witness ==
    /\ pc = "decide_return"
    /\ ~self_before.active
    /\ RatLt(Dec(draw), base_chance)
    /\ RatLt(stay_prob, Dec(draw))
    /\ people[1].active

\* C15: the mode of a statistics report is "No unique mode" whenever the
\* highest frequency is shared by more than one value (as in [1, 1, 2, 2])
\* and is the single most frequent value otherwise; it is never one of
\* several tied values.
C15_TiedModeIsNoUniqueMode ==
    (pc \in {"generate_report_return", "stats_report_return"} /\ people /= <<>>) =>
        LET values == RoundedValues(people)
            range  == {values[i] : i \in 1 .. Len(values)}
            top    == {v \in range : \A w \in range :
                          Frequency(values, w) <= Frequency(values, v)}
        IN  IF Cardinality(top) > 1
            THEN report.mode = [text |-> "No unique mode"]
            ELSE report.mode \in top

\* C16: the participation ratio a period uses is the number of persons
\* active when the period starts divided by the number of persons, and the
\* period's market state is drawn before the active flag of any person
\* changes in that period: the step that draws leaves every person as it
\* was, and persons change only in the step after the draw.
C16_RatioSnapshotBeforeDecisions ==
    [][/\ pc' = "agents" =>
            /\ people' = people
            /\ active_ratio' = Rat(Cardinality({i \in 1 .. Len(people) : people[i].active}),
                                   Len(people))
            /\ adjusted_transitions' =
                  adjust_for_participation(BASE_MARKOV_TRANSITIONS, active_ratio')
       /\ people' /= people => pc = "agents"]_vars

C16_Witness ==
    /\ pc = "agents"
    /\ active_ratio = Rat(1, 2)
    /\ Cardinality({i \in 1 .. Len(people) : people[i].active}) = 1
    /\ next_state = "crash"

\* C18: the aggregate value recorded for a period is the sum of value over
\* exactly the persons active once every person's decide and update_value
\* of that period has run (0 when nobody is active), and it is recorded
\* together with the market state drawn in that period.
C18_RecordedValueIsActiveSum ==
    [][pc = "agents" =>
          LET act == SelectSeq(people', LAMBDA p : p.active)
          IN  /\ market_value_history' =
                    Append(market_value_history,
                           RatSumSeq([i \in 1 .. Len(act) |-> act[i].value]))
              /\ market_history' = Append(market_history, next_state)
              /\ Len(market_value_history') = Len(market_history')]_vars

C18_Witness ==
    /\ year = Horizon
    /\ Len(market_value_history) = Horizon
    /\ market_history[Horizon] = "boom"
    /\ \E i \in 1 .. Len(people) :
          /\ people[i].active
          /\ \A j \in 1 .. Len(people) : j /= i => ~people[j].active
          /\ market_value_history[Horizon] = people[i].value
          /\ people[i].value = Rat(1300, 1)

\* C19: the step of one person (decide, then update_value) reads only the
\* drawn state, the market index and that person, and writes only that
\* person; so, for fixed draws per person, every order of the persons'
\* steps gives the same persons at the end of the period and the same
\* recorded aggregate value.
C19_AgentOrderIrrelevant ==
    pc = "agents" =>
        \A draws \in [1 .. Len(people) -> DecideDraws] :
            LET inOrder == RunAgents(people, ListOrder(people), next_state,
                                     sy_market_index, draws)
            IN  /\ \A order \in Permutations(1 .. Len(people)) :
                      LET out == RunAgents(people, order, next_state,
                                           sy_market_index, draws)
                      IN  out = inOrder /\ ActiveValue(out) = ActiveValue(inOrder)
                /\ \A i \in 1 .. Len(people) :
                      LET one == AgentStep(people, i, next_state, sy_market_index,
                                           draws[i])
                      IN  /\ \A j \in 1 .. Len(people) : j /= i => one[j] = people[j]
                          /\ one[i] = inOrder[i]

C19_Witness ==
    /\ pc = "agents"
    /\ Len(people) = 2
    /\ people[1].active
    /\ ~people[2].active
    /\ next_state = "down"
    /\ \E draws \in [1 .. 2 -> DecideDraws] :
          LET out == RunAgents(people, <<2, 1>>, next_state, sy_market_index, draws)
          IN  ~out[1].active /\ out[2].active

\* C20: a market state whose adjusted probability from the current state is
\* 0 is never drawn; in particular, in every recorded market history the
\* state right after a `down` is never `boom`, whatever the participation
\* ratio.
C20_ZeroProbabilityNeverDrawn ==
    /\ pc = "agents" => RatLt(Zero, adjusted_transitions[current_state][next_state])
    /\ \A i \in 1 .. Len(market_history) - 1 :
          market_history[i] = "down" => market_history[i + 1] /= "boom"

C20_Witness ==
    /\ pc = "agents"
    /\ current_state = "down"
    /\ market_history = <<"down">>
    /\ active_ratio = Zero
    /\ adjusted_transitions["down"]["boom"] = Zero
    /\ next_state = "crash"

====
